---------------------------- MODULE Spec2Model ----------------------------
(***************************************************************************)
(* Course-Wizard: the course generation route (POST /api/generate-canvas), *)
(* the LLM client's JSON wrapper (generateJSONResponse) and the IMSCC      *)
(* exporter, as state machines over untyped JSON values; and the library  *)
(* functions escapeXml, generateQuizQti, getProvider, exportToIMSCC and    *)
(* buildModuleContentUserPrompt, each called on its own with arguments     *)
(* drawn from a bounded set.                                               *)
(*                                                                         *)
(* A JavaScript value is a record [t, v]: t is its kind, v its payload.    *)
(* A text (an HTTP body, a model completion) is a sequence of tokens: a    *)
(* token is one character, Ch(c), or one scalar JSON literal written out,  *)
(* Lit(value), which stands for the characters of that literal.            *)
(***************************************************************************)
EXTENDS Integers, Sequences, FiniteSets, TLC

VARIABLES
    pc,         \* where the running handler / caller is
    request,    \* POST: the text of the request body
    heap,       \* message objects: object id -> [role, content]
    messages,   \* the caller's messages array: a sequence of object ids
    sent,       \* the requests handed to the model, oldest first
    llmText,    \* the outcome of the last model call
    logged,     \* console.error lines of the current call
    result,     \* what generateJSONResponse returned or threw
    response,   \* POST: the HTTP response
    archive,    \* exportToIMSCC: the files of the archive
    args        \* the arguments of a library function called on its own

vars == <<pc, request, heap, messages, sent, llmText, logged, result, response, archive,
          args>>

----------------------------------------------------------------------------
(* JavaScript values *)

Undefined == [t |-> "undefined", v |-> ""]
Null == [t |-> "null", v |-> ""]
Str(s) == [t |-> "string", v |-> s]
Num(n) == [t |-> "number", v |-> n]
Bool(b) == [t |-> "boolean", v |-> b]
Arr(elems) == [t |-> "array", v |-> elems]
\* An object keeps its properties in insertion order: a sequence of [key, val].
Obj(props) == [t |-> "object", v |-> props]
Prop(key, val) == [key |-> key, val |-> val]

\* ToBoolean: undefined, null, "", 0 and false are falsy.
Truthy(x) ==
    CASE x.t \in {"undefined", "null"} -> FALSE
      [] x.t = "string" -> x.v # ""
      [] x.t = "number" -> x.v # 0
      [] x.t = "boolean" -> x.v
      [] OTHER -> TRUE

\* a || b
OrElse(a, b) == IF Truthy(a) THEN a ELSE b

\* a ?? b
Coalesce(a, b) == IF a.t \in {"undefined", "null"} THEN b ELSE a

\* typeof x
TypeOf(x) ==
    CASE x.t \in {"array", "null"} -> "object"
      [] OTHER -> x.t

IsArray(x) == x.t = "array"

\* Reading a property of undefined or null throws a TypeError.
CanRead(x) == x.t \notin {"undefined", "null"}

RECURSIVE Lookup(_, _, _)
Lookup(props, key, i) ==
    IF i = 0 THEN Undefined
    ELSE IF props[i].key = key THEN props[i].val
    ELSE Lookup(props, key, i - 1)

\* x.key for a readable x; none of the keys read here is an own or inherited
\* property of a string, number, boolean or array.
Get(x, key) == IF x.t = "object" THEN Lookup(x.v, key, Len(x.v)) ELSE Undefined

HasKey(x, key) == x.t = "object" /\ \E i \in 1..Len(x.v) : x.v[i].key = key

\* x.key = val: in place when the key exists, appended otherwise.
SetProp(props, key, val) ==
    IF \E i \in 1..Len(props) : props[i].key = key
    THEN [i \in 1..Len(props) |->
            IF props[i].key = key THEN Prop(key, val) ELSE props[i]]
    ELSE Append(props, Prop(key, val))

----------------------------------------------------------------------------
(* Texts *)

Ch(c) == [k |-> "ch", c |-> c]
Lit(x) == [k |-> "lit", x |-> x]

IsWs(tok) == tok.k = "ch" /\ tok.c \in {" ", "\n"}

\* String.prototype.startsWith / endsWith / slice
StartsWith(s, p) == Len(s) >= Len(p) /\ SubSeq(s, 1, Len(p)) = p
EndsWith(s, p) == Len(s) >= Len(p) /\ SubSeq(s, Len(s) - Len(p) + 1, Len(s)) = p
SliceFrom(s, n) == SubSeq(s, n + 1, Len(s))
SliceDropLast(s, n) == SubSeq(s, 1, Len(s) - n)

RECURSIVE TrimStart(_)
TrimStart(s) == IF s # <<>> /\ IsWs(Head(s)) THEN TrimStart(Tail(s)) ELSE s

RECURSIVE TrimEnd(_)
TrimEnd(s) ==
    IF s # <<>> /\ IsWs(s[Len(s)]) THEN TrimEnd(SubSeq(s, 1, Len(s) - 1)) ELSE s

\* String.prototype.trim
Trim(s) == TrimEnd(TrimStart(s))


----------------------------------------------------------------------------
(* JSON.parse.  Of the characters, the parser knows white space, the       *)
(* punctuation [ ] { } , : the quote (a string of characters with no       *)
(* escapes) and the digits (an unsigned integer); every other character    *)
(* (a backquote, a letter) is unexpected wherever a value may start.  A Lit *)
(* token is a scalar literal already lexed.                                *)

Failed == [ok |-> FALSE, val |-> Undefined, pos |-> 0]
Parsed(val, pos) == [ok |-> TRUE, val |-> val, pos |-> pos]

Digits == {"0", "1", "2", "3", "4", "5", "6", "7", "8", "9"}

DigitVal(c) ==
    CASE c = "0" -> 0 [] c = "1" -> 1 [] c = "2" -> 2 [] c = "3" -> 3
      [] c = "4" -> 4 [] c = "5" -> 5 [] c = "6" -> 6 [] c = "7" -> 7
      [] c = "8" -> 8 [] c = "9" -> 9

IsChar(s, i, c) == i <= Len(s) /\ s[i].k = "ch" /\ s[i].c = c
IsDigit(s, i) == i <= Len(s) /\ s[i].k = "ch" /\ s[i].c \in Digits

RECURSIVE SkipWs(_, _)
SkipWs(s, i) == IF i <= Len(s) /\ IsWs(s[i]) THEN SkipWs(s, i + 1) ELSE i

\* The digits from i on, after the digits that made n.
RECURSIVE ParseDigits(_, _, _)
ParseDigits(s, i, n) ==
    IF IsDigit(s, i) THEN ParseDigits(s, i + 1, 10 * n + DigitVal(s[i].c))
    ELSE Parsed(Num(n), i)

\* A number starting at the digit s[i]: a leading 0 is a number by itself.
ParseNumber(s, i) ==
    IF s[i].c = "0" THEN Parsed(Num(0), i + 1) ELSE ParseDigits(s, i, 0)

\* The characters of a string after its opening quote, up to the closing one.
RECURSIVE ParseChars(_, _, _)
ParseChars(s, i, acc) ==
    IF i > Len(s) \/ s[i].k # "ch" \/ s[i].c = "\n" THEN Failed
    ELSE IF s[i].c = "\"" THEN Parsed(Str(acc), i + 1)
    ELSE ParseChars(s, i + 1, acc \o s[i].c)

\* A string starting at s[i], if one does.
ParseString(s, i) ==
    IF i > Len(s) THEN Failed
    ELSE IF s[i].k = "lit" THEN
        IF s[i].x.t = "string" THEN Parsed(s[i].x, i + 1) ELSE Failed
    ELSE IF s[i].c = "\"" THEN ParseChars(s, i + 1, "")
    ELSE Failed

RECURSIVE ParseValue(_, _), ParseElements(_, _, _), ParseMembers(_, _, _)

\* The value that starts at the first token after the white space from i on.
ParseValue(s, i) ==
    LET j == SkipWs(s, i) IN
    IF j > Len(s) THEN Failed
    ELSE IF s[j].k = "lit" THEN Parsed(s[j].x, j + 1)
    ELSE IF s[j].c = "\"" THEN ParseString(s, j)
    ELSE IF s[j].c \in Digits THEN ParseNumber(s, j)
    ELSE IF s[j].c = "[" THEN
        LET k == SkipWs(s, j + 1) IN
        IF IsChar(s, k, "]") THEN Parsed(Arr(<<>>), k + 1)
        ELSE ParseElements(s, k, <<>>)
    ELSE IF s[j].c = "{" THEN
        LET k == SkipWs(s, j + 1) IN
        IF IsChar(s, k, "}") THEN Parsed(Obj(<<>>), k + 1)
        ELSE ParseMembers(s, k, <<>>)
    ELSE Failed

\* The elements of an array from i on, after the elements acc.
ParseElements(s, i, acc) ==
    LET e == ParseValue(s, i) IN
    IF ~e.ok THEN Failed
    ELSE LET k == SkipWs(s, e.pos) IN
         IF IsChar(s, k, "]") THEN Parsed(Arr(Append(acc, e.val)), k + 1)
         ELSE IF IsChar(s, k, ",") THEN ParseElements(s, k + 1, Append(acc, e.val))
         ELSE Failed

\* The members of an object from i on, after the members props.
ParseMembers(s, i, props) ==
    LET key == ParseString(s, SkipWs(s, i)) IN
    IF ~key.ok THEN Failed
    ELSE LET c == SkipWs(s, key.pos) IN
         IF ~IsChar(s, c, ":") THEN Failed
         ELSE LET e == ParseValue(s, c + 1) IN
              IF ~e.ok THEN Failed
              ELSE LET k == SkipWs(s, e.pos)
                       next == SetProp(props, key.val.v, e.val)
                   IN  IF IsChar(s, k, "}") THEN Parsed(Obj(next), k + 1)
                       ELSE IF IsChar(s, k, ",") THEN ParseMembers(s, k + 1, next)
                       ELSE Failed

\* JSON.parse(text): one value and nothing but white space after it.
JSONParse(s) ==
    LET r == ParseValue(s, 1) IN
    IF r.ok /\ SkipWs(s, r.pos) > Len(s) THEN r ELSE Failed

\* JSON.stringify(x) for a value with no undefined in it.
RECURSIVE Stringify(_), StringifyElems(_, _), StringifyProps(_, _)
Stringify(x) ==
    CASE x.t = "array" -> <<Ch("[")>> \o StringifyElems(x.v, 1) \o <<Ch("]")>>
      [] x.t = "object" -> <<Ch("{")>> \o StringifyProps(x.v, 1) \o <<Ch("}")>>
      [] OTHER -> <<Lit(x)>>

StringifyElems(elems, i) ==
    IF i > Len(elems) THEN <<>>
    ELSE (IF i > 1 THEN <<Ch(",")>> ELSE <<>>)
         \o Stringify(elems[i]) \o StringifyElems(elems, i + 1)

StringifyProps(props, i) ==
    IF i > Len(props) THEN <<>>
    ELSE (IF i > 1 THEN <<Ch(",")>> ELSE <<>>)
         \o <<Lit(Str(props[i].key)), Ch(":")>> \o Stringify(props[i].val)
         \o StringifyProps(props, i + 1)

----------------------------------------------------------------------------
(* generateJSONResponse: from the model's text to a value *)

\* The backquote character (U+0060).  A string literal of this module cannot hold
\* one, so the character is written as the one-character string "^".
Backquote == "^"

Fence == <<Ch(Backquote), Ch(Backquote), Ch(Backquote)>>
FenceJson == Fence \o <<Ch("j"), Ch("s"), Ch("o"), Ch("n")>>

\* A variant that tests for the bare marker first.
StripLeadingFenceBareFirst(s) ==
    IF StartsWith(s, Fence) THEN SliceFrom(s, 3)
    ELSE IF StartsWith(s, FenceJson) THEN SliceFrom(s, 7)
    ELSE s

StripLeadingFence(s) ==
    IF StartsWith(s, FenceJson) THEN SliceFrom(s, 7)
    ELSE IF StartsWith(s, Fence) THEN SliceFrom(s, 3)
    ELSE s

StripTrailingFence(s) == IF EndsWith(s, Fence) THEN SliceDropLast(s, 3) ELSE s

\* cleanedResponse: trimmed, the markdown fence markers removed, trimmed again.
CleanResponse(text) == Trim(StripTrailingFence(StripLeadingFence(Trim(text))))

\* The instruction appended to the last user message.
JsonInstruction ==
    "\n\nRespond with valid JSON only. No markdown, no explanation, just the JSON object."

ParseErrorMessage == "LLM response was not valid JSON"

\* The outcome of a call: a value returned, or an Error thrown.
Returned(x) == [kind |-> "value", value |-> x, message |-> ""]
Threw(m) == [kind |-> "error", value |-> Undefined, message |-> m]
NoResult == [kind |-> "none", value |-> Undefined, message |-> ""]

\* What the model call came to: a completion, or a transport/provider Error.
Completion(text) == [kind |-> "text", text |-> text, message |-> ""]
TransportError(m) == [kind |-> "error", text |-> <<>>, message |-> m]
NoOutcome == [kind |-> "none", text |-> <<>>, message |-> ""]

\* A console.error line: its label, and the text or the Error's message after it.
LogLine(label, message, text) == [label |-> label, message |-> message, text |-> text]

\* jsonMessages = [...messages] copies the array, not the message objects: the
\* last element is the caller's object, and += writes to it.
AppendJsonInstruction(h, msgs) ==
    IF msgs # <<>> /\ h[msgs[Len(msgs)]].role = "user"
    THEN [h EXCEPT ![msgs[Len(msgs)]].content = @ \o JsonInstruction]
    ELSE h

UpperLetters ==
    <<"A", "B", "C", "D", "E", "F", "G", "H", "I", "J", "K", "L", "M",
      "N", "O", "P", "Q", "R", "S", "T", "U", "V", "W", "X", "Y", "Z">>
LowerLetters ==
    <<"a", "b", "c", "d", "e", "f", "g", "h", "i", "j", "k", "l", "m",
      "n", "o", "p", "q", "r", "s", "t", "u", "v", "w", "x", "y", "z">>

LowerChar(c) ==
    IF \E i \in DOMAIN UpperLetters : UpperLetters[i] = c
    THEN LowerLetters[CHOOSE i \in DOMAIN UpperLetters : UpperLetters[i] = c]
    ELSE c

RECURSIVE LowerFrom(_, _)
LowerFrom(s, i) ==
    IF i > Len(s) THEN "" ELSE LowerChar(SubSeq(s, i, i)) \o LowerFrom(s, i + 1)

\* A variant that leaves the text as it is.
toLowerCaseKept(s) == s

\* String.prototype.toLowerCase
toLowerCase(s) == LowerFrom(s, 1)

\* process.env.NAME: a string, or undefined when the variable is not set.
EnvVar(env, name) == env[name]

\* getProvider(): the provider the client is built for.
getProvider(env) ==
    LET selector == EnvVar(env, "LLM_PROVIDER")
        provider == IF CanRead(selector) THEN Str(toLowerCase(selector.v)) ELSE Undefined
    IN  IF provider = Str("openai") \/ provider = Str("anthropic") \/ provider = Str("azure")
        THEN provider.v
        ELSE IF Truthy(EnvVar(env, "AZURE_OPENAI_API_KEY"))
                /\ Truthy(EnvVar(env, "AZURE_OPENAI_ENDPOINT"))
        THEN "azure"
        ELSE IF Truthy(EnvVar(env, "ANTHROPIC_API_KEY")) THEN "anthropic"
        ELSE "openai"

\* temperature = 0.7 (in tenths), maxTokens = 4096
DefaultTemperatureTenths == 7
DefaultMaxTokens == 4096

\* A destructuring default: taken when the property is undefined.
DefaultTo(x, d) == IF x.t = "undefined" THEN d ELSE x

\* generateLLMResponse: the request generateText is called with.  The system
\* prompt is the first system message's content (<<>> when there is none).
LLMRequest(h, msgs, options) ==
    LET systems == SelectSeq(msgs, LAMBDA id : h[id].role = "system")
        others == SelectSeq(msgs, LAMBDA id : h[id].role # "system")
    IN  [system |-> IF systems = <<>> THEN <<>> ELSE <<h[systems[1]].content>>,
         messages |-> [i \in 1..Len(others) |-> h[others[i]]],
         temperature |->
            DefaultTo(Get(options, "temperature"), Num(DefaultTemperatureTenths)),
         maxTokens |-> DefaultTo(Get(options, "maxTokens"), Num(DefaultMaxTokens))]

\* A variant that takes the first value of the text and ignores what follows it.
ParseResponseLenient(text) ==
    LET r == ParseValue(CleanResponse(text), 1) IN
    IF r.ok THEN Returned(r.val) ELSE Threw(ParseErrorMessage)

\* The try block of generateJSONResponse on the model's text.
ParseResponse(text) ==
    LET r == JSONParse(CleanResponse(text)) IN
    IF r.ok THEN Returned(r.val) ELSE Threw(ParseErrorMessage)

\* generateJSONResponse after the model call: a transport error passes through.
JSONResponseResult(outcome) ==
    IF outcome.kind = "error" THEN Threw(outcome.message)
    ELSE ParseResponse(outcome.text)

\* A variant that sends the request again when the text does not parse.
RequestsAfterRetry(requests, outcome) ==
    IF outcome.kind = "text" /\ ~JSONParse(CleanResponse(outcome.text)).ok
    THEN Append(requests, requests[Len(requests)])
    ELSE requests

\* The requests made once the model call has settled: generateJSONResponse awaits
\* generateLLMResponse once, outside any loop, and its catch block only throws.
RequestsAfter(requests, outcome) == requests

\* What generateJSONResponse logs: the raw text, when it does not parse.
JSONResponseLog(outcome) ==
    IF outcome.kind = "text" /\ ~JSONParse(CleanResponse(outcome.text)).ok
    THEN <<LogLine("Failed to parse LLM response as JSON:", "", outcome.text)>>
    ELSE <<>>

----------------------------------------------------------------------------
(* Prompt builder *)

RECURSIVE Join(_, _, _)

\* String(x), as a template literal applies it.
ToStr(x) ==
    CASE x.t = "string" -> x.v
      [] x.t = "number" -> ToString(x.v)
      [] x.t = "boolean" -> IF x.v THEN "true" ELSE "false"
      [] x.t = "array" -> Join(x.v, ",", 1)
      [] x.t = "object" -> "[object Object]"
      [] OTHER -> x.t

\* Array.prototype.join from element i on: null and undefined give "".
Join(elems, sep, i) ==
    IF i > Len(elems) THEN ""
    ELSE (IF i > 1 THEN sep ELSE "")
         \o (IF CanRead(elems[i]) THEN ToStr(elems[i]) ELSE "")
         \o Join(elems, sep, i + 1)

\* getAnswer(id)
getAnswer(answers, id) ==
    LET val == Get(answers, id) IN
    IF IsArray(val) THEN Join(val.v, ", ", 1) ELSE ToStr(OrElse(val, Str("")))

\* buildCanvasGenerationSystemPrompt()
buildCanvasGenerationSystemPrompt ==
    "You are an expert instructional designer specializing in Canvas LMS course development. Your role is to generate complete, ready-to-use course content based on the instructor's design specifications.\n\nWhen generating content:\n- Create professional, engaging content appropriate for the course level\n- Ensure all content aligns with stated learning objectives\n- Use clear, accessible language\n- Include relevant examples and explanations\n- Create detailed rubrics with clear criteria\n- Design assessment items that measure learning objectives\n- Maintain consistent formatting and structure\n\nCRITICAL: You must respond with raw JSON only. Do NOT wrap your response in markdown code blocks (no ^^^). Do NOT include any text before or after the JSON. Start your response with { and end with }."

\* The template of buildCanvasGenerationUserPrompt: each piece of fixed text and
\* the answer interpolated after it.
CanvasPromptSections == <<
    [text |-> "## Course Generation Task\n\nBased on the following course design specifications, generate a complete Canvas course structure with full content.\n\n### Course Overview:\n- **Title:** ",
     answer |-> "course-title"],
    [text |-> "\n- **Code:** ",
     answer |-> "course-code"],
    [text |-> "\n- **Description:** ",
     answer |-> "course-description"],
    [text |-> "\n- **Target Audience:** ",
     answer |-> "target-audience"],
    [text |-> "\n- **Delivery Format:** ",
     answer |-> "delivery-format"],
    [text |-> "\n- **Duration:** ",
     answer |-> "course-duration"],
    [text |-> "\n- **Credit Hours:** ",
     answer |-> "credit-hours"],
    [text |-> "\n\n### Learning Objectives:\n",
     answer |-> "learning-objectives"],
    [text |-> "\n\n### Module Structure:\n",
     answer |-> "module-details"],
    [text |-> "\n\n### Pacing:\n",
     answer |-> "module-pacing"],
    [text |-> "\n\n### Resources:\n",
     answer |-> "key-resources"],
    [text |-> "\n\n### Assessment Types:\n",
     answer |-> "assignment-types"],
    [text |-> "\n\n### Major Assignments:\n",
     answer |-> "assignment-details"],
    [text |-> "\n\n### Quiz Structure:\n",
     answer |-> "quiz-structure"],
    [text |-> "\n\n### Discussion Strategy:\n",
     answer |-> "discussion-prompts"],
    [text |-> "\n\n### Grading:\n",
     answer |-> "grading-weights"],
    [text |-> "\n\n### Rubric Criteria:\n",
     answer |-> "rubric-criteria"],
    [text |-> "\n\n### Welcome Message Draft:\n",
     answer |-> "welcome-message"],
    [text |-> "\n\n### Instructor Introduction:\n",
     answer |-> "instructor-intro"],
    [text |-> "\n\n### Communication Policy:\n",
     answer |-> "communication-policy"],
    [text |-> "\n\n### Support Resources:\n",
     answer |-> "support-resources"],
    [text |-> "\n\n### Late Policy:\n",
     answer |-> "late-policy"],
    [text |-> "\n\n### Accessibility Statement:\n",
     answer |-> "accessibility-statement"]
>>

\* The fixed text after the last answer: the required output format.
CanvasPromptTail ==
    "\n\n---\n\n## Required Output Format:\n\nGenerate a JSON object with this structure:\n\n{\n  \"title\": \"<course title>\",\n  \"description\": \"<course description for Canvas>\",\n  \"welcomeMessage\": \"<complete welcome message HTML>\",\n  \"modules\": [\n    {\n      \"id\": \"<unique id>\",\n      \"name\": \"<module name>\",\n      \"position\": <number>,\n      \"items\": [\n        {\n          \"id\": \"<unique id>\",\n          \"type\": \"page\" | \"assignment\" | \"discussion\" | \"quiz\",\n          \"title\": \"<item title>\",\n          \"content\": \"<full HTML content for pages>\",\n          \"position\": <number>,\n          \"points\": <number for assignments/quizzes>,\n          \"rubric\": {\n            \"title\": \"<rubric title>\",\n            \"criteria\": [\n              {\n                \"description\": \"<criterion description>\",\n                \"points\": <max points>,\n                \"ratings\": [\n                  {\"description\": \"<rating level>\", \"points\": <points>}\n                ]\n              }\n            ]\n          },\n          \"questions\": [\n            {\n              \"type\": \"multiple_choice\" | \"short_answer\" | \"essay\",\n              \"text\": \"<question text>\",\n              \"points\": <points>,\n              \"answers\": [{\"text\": \"<answer>\", \"correct\": true|false}]\n            }\n          ],\n          \"prompt\": \"<discussion prompt for discussion items>\"\n        }\n      ]\n    }\n  ]\n}\n\nGenerate complete, substantive content for each item:\n- For pages: Include clear lesson content (200-300 words) covering key concepts\n- For assignments: Include clear instructions and requirements\n- For discussions: Include engaging prompts with 2-3 guiding questions\n- For quizzes: Include 3-5 questions per quiz\n\nIMPORTANT: Keep the JSON response concise to avoid truncation. Focus on quality over quantity."

RECURSIVE RenderSections(_, _, _)
RenderSections(sections, answers, i) ==
    IF i > Len(sections) THEN ""
    ELSE sections[i].text \o getAnswer(answers, sections[i].answer)
         \o RenderSections(sections, answers, i + 1)

buildCanvasGenerationUserPrompt(answers) ==
    RenderSections(CanvasPromptSections, answers, 1) \o CanvasPromptTail

----------------------------------------------------------------------------
(* Prompt builder: the per-module content prompt *)

\* moduleStructure.items.map((item) => `- ${item.title} (${item.type})`).join("\n")
RECURSIVE ModuleItemsList(_, _)
ModuleItemsList(items, i) ==
    IF i > Len(items) THEN ""
    ELSE (IF i > 1 THEN "\n" ELSE "")
         \o "- " \o ToStr(Get(items[i], "title")) \o " (" \o ToStr(Get(items[i], "type")) \o ")"
         \o ModuleItemsList(items, i + 1)

\* buildModuleContentUserPrompt(answers, moduleStructure, courseTitle)
buildModuleContentUserPrompt(answers, moduleStructure, courseTitle) ==
    "## Module Content Generation\n\nGenerate detailed content for Module "
    \o ToStr(Get(moduleStructure, "position"))
    \o ": \""
    \o ToStr(Get(moduleStructure, "name"))
    \o "\" in the course \""
    \o ToStr(courseTitle)
    \o "\".\n\n### Course Context:\n- **Learning Objectives:** "
    \o getAnswer(answers, "learning-objectives")
    \o "\n- **Target Audience:** "
    \o getAnswer(answers, "target-audience")
    \o "\n- **Assessment Approach:** "
    \o getAnswer(answers, "assignment-types")
    \o "\n- **Rubric Criteria:** "
    \o getAnswer(answers, "rubric-criteria")
    \o "\n\n### Module Items to Generate Content For:\n"
    \o ModuleItemsList(Get(moduleStructure, "items").v, 1)
    \o "\n\n---\n\n## Required Output Format:\n\nGenerate a JSON object with detailed content for each item:\n\n{\n  \"moduleId\": \""
    \o ToStr(Get(moduleStructure, "id"))
    \o "\",\n  \"items\": [\n    {\n      \"id\": \"<item id>\",\n      \"type\": \"page\" | \"assignment\" | \"discussion\" | \"quiz\",\n      \"title\": \"<item title>\",\n      \"content\": \"<full HTML content for pages, or instructions for assignments>\",\n      \"position\": <number>,\n      \"points\": <number for assignments/quizzes, omit for pages>,\n      \"rubric\": {\n        \"title\": \"<rubric title>\",\n        \"criteria\": [\n          {\n            \"description\": \"<criterion>\",\n            \"points\": <max points>,\n            \"ratings\": [{\"description\": \"<level>\", \"points\": <points>}]\n          }\n        ]\n      },\n      \"questions\": [\n        {\n          \"type\": \"multiple_choice\" | \"short_answer\" | \"essay\",\n          \"text\": \"<question>\",\n          \"points\": <points>,\n          \"answers\": [{\"text\": \"<answer>\", \"correct\": true|false}]\n        }\n      ],\n      \"prompt\": \"<discussion prompt if type is discussion>\"\n    }\n  ]\n}\n\nContent guidelines:\n- Pages: 200-300 words covering key concepts\n- Assignments: Clear instructions, include rubric with 3-4 criteria\n- Discussions: Engaging prompt with 2-3 guiding questions\n- Quizzes: 3-5 questions with answers"

----------------------------------------------------------------------------
(* Course normalizer: the map of POST over course.modules *)

\* `prefix${index + 1}`
Numbered(prefix, index) == Str(prefix \o ToString(index + 1))

\* A variant that numbers a synthesized item id by item first, module second.
NormalizeItemSwapped(item, moduleIndex, itemIndex) ==
    Obj(<<
        Prop("id", OrElse(Get(item, "id"),
                 Str("item-" \o ToString(itemIndex + 1) \o "-" \o ToString(moduleIndex + 1)))),
        Prop("type", OrElse(Get(item, "type"), Str("page"))),
        Prop("title", OrElse(Get(item, "title"), Numbered("Item ", itemIndex))),
        Prop("content", Get(item, "content")),
        Prop("position", Coalesce(Get(item, "position"), Num(itemIndex + 1))),
        Prop("points", Get(item, "points")),
        Prop("rubric", Get(item, "rubric")),
        Prop("questions", Get(item, "questions")),
        Prop("prompt", Get(item, "prompt"))
    >>)

NormalizeItem(item, moduleIndex, itemIndex) ==
    Obj(<<
        Prop("id", OrElse(Get(item, "id"),
                 Str("item-" \o ToString(moduleIndex + 1) \o "-" \o ToString(itemIndex + 1)))),
        Prop("type", OrElse(Get(item, "type"), Str("page"))),
        Prop("title", OrElse(Get(item, "title"), Numbered("Item ", itemIndex))),
        Prop("content", Get(item, "content")),
        Prop("position", Coalesce(Get(item, "position"), Num(itemIndex + 1))),
        Prop("points", Get(item, "points")),
        Prop("rubric", Get(item, "rubric")),
        Prop("questions", Get(item, "questions")),
        Prop("prompt", Get(item, "prompt"))
    >>)

\* module.items || []
ItemsOf(module) == OrElse(Get(module, "items"), Arr(<<>>))

\* A variant that defaults id and name with ?? and position with ||.
NormalizeModuleNullish(module, moduleIndex) ==
    Obj(<<
        Prop("id", Coalesce(Get(module, "id"), Numbered("module-", moduleIndex))),
        Prop("name", Coalesce(Get(module, "name"), Numbered("Module ", moduleIndex))),
        Prop("position", OrElse(Get(module, "position"), Num(moduleIndex + 1))),
        Prop("items", Arr([j \in 1..Len(ItemsOf(module).v) |->
                 NormalizeItem(ItemsOf(module).v[j], moduleIndex, j - 1)]))
    >>)

NormalizeModule(module, moduleIndex) ==
    Obj(<<
        Prop("id", OrElse(Get(module, "id"), Numbered("module-", moduleIndex))),
        Prop("name", OrElse(Get(module, "name"), Numbered("Module ", moduleIndex))),
        Prop("position", Coalesce(Get(module, "position"), Num(moduleIndex + 1))),
        Prop("items", Arr([j \in 1..Len(ItemsOf(module).v) |->
                 NormalizeItem(ItemsOf(module).v[j], moduleIndex, j - 1)]))
    >>)

NormalizeModules(modules) ==
    Arr([i \in 1..Len(modules.v) |-> NormalizeModule(modules.v[i], i - 1)])

TypeErrorNullish == "Cannot read properties of null"
TypeErrorNoMap == "(module.items || []).map is not a function"

\* The TypeError the callback throws on one module, "" when it throws none: a
\* property of a null module or item is read, or items is truthy and no array
\* (it has no map method).
ModuleError(module) ==
    IF ~CanRead(module) THEN TypeErrorNullish
    ELSE IF ~IsArray(ItemsOf(module)) THEN TypeErrorNoMap
    ELSE IF \E j \in 1..Len(ItemsOf(module).v) : ~CanRead(ItemsOf(module).v[j])
         THEN TypeErrorNullish
    ELSE ""

\* The first TypeError of the map over the modules from i on.
RECURSIVE NormalizeError(_, _)
NormalizeError(modules, i) ==
    IF i > Len(modules.v) THEN ""
    ELSE IF ModuleError(modules.v[i]) # "" THEN ModuleError(modules.v[i])
    ELSE NormalizeError(modules, i + 1)

\* What JSON.stringify keeps of a value: properties that are undefined are left out.
RECURSIVE Jsonify(_)
Jsonify(x) ==
    CASE x.t = "array" -> Arr([i \in 1..Len(x.v) |-> Jsonify(x.v[i])])
      [] x.t = "object" ->
            LET kept == SelectSeq(x.v, LAMBDA p : p.val.t # "undefined")
            IN  Obj([i \in 1..Len(kept) |-> Prop(kept[i].key, Jsonify(kept[i].val))])
      [] OTHER -> x

----------------------------------------------------------------------------
(* POST /api/generate-canvas *)

HttpResponse(status, body) == [status |-> status, body |-> body]
NoResponse == [status |-> 0, body |-> Undefined]

\* NextResponse.json({ error: error.message || "Course generation failed" }, 500)
ErrorResponse(message) ==
    HttpResponse(500, Obj(<<Prop("error",
        Str(IF message = "" THEN "Course generation failed" ELSE message))>>))

MissingAnswersResponse ==
    HttpResponse(400, Obj(<<Prop("error", Str("Missing required field: answers"))>>))

BodySyntaxError == "Unexpected end of JSON input"
InvalidStructureMessage == "Invalid course structure returned from LLM"

\* A variant that only tests !answers.
AnswersRejectedFalsyOnly(answers) == ~Truthy(answers)

\* !answers || typeof answers !== "object"
AnswersRejected(answers) == ~Truthy(answers) \/ TypeOf(answers) # "object"

\* The Error the handler ends with before any model call, "" when there is none:
\* request.json() rejects a body that is no JSON, and destructuring null throws.
ReceiveError(text) ==
    LET body == JSONParse(text) IN
    IF ~body.ok THEN BodySyntaxError
    ELSE IF ~CanRead(body.val) THEN TypeErrorNullish
    ELSE ""

RequestAnswers(text) == Get(JSONParse(text).val, "answers")

\* { temperature: 0.7, maxTokens: 16000 }, the temperature in tenths
RouteOptions == Obj(<<Prop("temperature", Num(7)), Prop("maxTokens", Num(16000))>>)

\* The two message objects the handler builds.
RouteMessages(answers) ==
    <<[role |-> "system", content |-> buildCanvasGenerationSystemPrompt],
      [role |-> "user", content |-> buildCanvasGenerationUserPrompt(answers)]>>

\* A variant of the validation that does not look at course.title.
CourseErrorNoTitle(course) ==
    IF ~CanRead(course) THEN TypeErrorNullish
    ELSE IF ~Truthy(Get(course, "modules")) \/ ~IsArray(Get(course, "modules"))
         THEN "Invalid course structure returned from LLM"
    ELSE NormalizeError(Get(course, "modules"), 1)

\* The Error thrown between the model's answer and the response, "" when none.
CourseError(course) ==
    IF ~CanRead(course) THEN TypeErrorNullish
    ELSE IF \/ ~Truthy(Get(course, "title"))
            \/ ~Truthy(Get(course, "modules"))
            \/ ~IsArray(Get(course, "modules"))
         THEN InvalidStructureMessage
    ELSE NormalizeError(Get(course, "modules"), 1)

\* course.modules = course.modules.map(...)
NormalizedCourse(course) ==
    Obj(SetProp(course.v, "modules", NormalizeModules(Get(course, "modules"))))

\* The handler from the model's outcome to its response.
PostResponse(outcome) ==
    LET r == JSONResponseResult(outcome) IN
    IF r.kind = "error" THEN ErrorResponse(r.message)
    ELSE IF CourseError(r.value) # "" THEN ErrorResponse(CourseError(r.value))
    ELSE HttpResponse(200, Obj(<<Prop("course", Jsonify(NormalizedCourse(r.value)))>>))

\* What the catch block logs.
PostLog(outcome) ==
    LET r == JSONResponseResult(outcome) IN
    IF r.kind = "error" THEN <<LogLine("Canvas generation error:", r.message, <<>>)>>
    ELSE IF CourseError(r.value) # ""
         THEN <<LogLine("Canvas generation error:", CourseError(r.value), <<>>)>>
    ELSE <<>>

----------------------------------------------------------------------------
(* exportToIMSCC: the files of the archive *)

\* String.prototype.replace(/c/g, by) from character i on.
RECURSIVE ReplaceAll(_, _, _, _)
ReplaceAll(s, c, by, i) ==
    IF i > Len(s) THEN ""
    ELSE (IF SubSeq(s, i, i) = c THEN by ELSE SubSeq(s, i, i)) \o ReplaceAll(s, c, by, i + 1)

\* A variant that replaces the ampersand last.
escapeXmlAmpersandLast(text) ==
    ReplaceAll(ReplaceAll(ReplaceAll(ReplaceAll(ReplaceAll(text,
        "<", "&lt;", 1), ">", "&gt;", 1), "\"", "&quot;", 1), "'", "&apos;", 1), "&", "&amp;", 1)

\* escapeXml(text): five replace calls in a row, the ampersand first.
escapeXml(text) ==
    ReplaceAll(ReplaceAll(ReplaceAll(ReplaceAll(ReplaceAll(text,
        "&", "&amp;", 1), "<", "&lt;", 1), ">", "&gt;", 1), "\"", "&quot;", 1), "'", "&apos;", 1)

\* escapeXml(text) calls text.replace: a TypeError unless text is a string.
EscapeXmlThrows(x) == x.t # "string"

\* The title as a generator writes it into its document.
EscapedTitle(x) == IF EscapeXmlThrows(x) THEN "" ELSE escapeXml(x.v)

\* generateId(): a fresh identifier from the clock and Math.random; the n-th
\* call of a render gives the n-th fresh identifier.
generateId(n) == "i<fresh " \o ToString(n) \o ">"

\* generateManifest: resourceType and href of an item, from the if / else if chain.
ResourceType(item) ==
    LET type == Get(item, "type") IN
    IF type = Str("assignment") THEN "assignment"
    ELSE IF type = Str("discussion") THEN "discussion"
    ELSE IF type = Str("quiz") THEN "assessment"
    ELSE "webcontent"

\* A variant that gives a quiz the href of a page.
ResourceHrefQuizAsPage(item) == ToStr(Get(item, "id")) \o ".html"

ResourceHref(item) ==
    LET id == ToStr(Get(item, "id"))
        type == Get(item, "type")
    IN  IF type = Str("assignment") THEN "assignments/" \o id \o ".html"
        ELSE IF type = Str("discussion") THEN "discussions/" \o id \o ".html"
        ELSE IF type = Str("quiz") THEN "quizzes/" \o id \o ".xml"
        ELSE id \o ".html"

Resource(identifier, type, href) == [identifier |-> identifier, type |-> type, href |-> href]

\* An <item> of the organization: identifierref is "" when the item has none.
OrgItem(identifier, identifierref, title, items) ==
    [identifier |-> identifier, identifierref |-> identifierref, title |-> title,
     items |-> items]

\* A variant that visits the modules in the order of their position values.
RECURSIVE InsertByPosition(_, _)
InsertByPosition(sorted, module) ==
    IF sorted = <<>> THEN <<module>>
    ELSE IF Get(module, "position").v < Get(Head(sorted), "position").v
    THEN <<module>> \o sorted
    ELSE <<Head(sorted)>> \o InsertByPosition(Tail(sorted), module)

RECURSIVE SortByPosition(_, _)
SortByPosition(modules, i) ==
    IF i > Len(modules) THEN <<>>
    ELSE InsertByPosition(SortByPosition(modules, i + 1), modules[i])

ModulesByPosition(course) == SortByPosition(Get(course, "modules").v, 1)

\* for (const courseModule of course.modules): the modules in array order.
ModulesInOrder(course) == Get(course, "modules").v

\* The items of all modules, in the order the two loops visit them.
RECURSIVE AllItems(_, _)
AllItems(modules, i) ==
    IF i > Len(modules) THEN <<>>
    ELSE Get(modules[i], "items").v \o AllItems(modules, i + 1)

\* The leaf <item> and the <resource> generateManifest pushes for one item.
ManifestLeaf(item) ==
    OrgItem("item_" \o ToStr(Get(item, "id")), "res_" \o ToStr(Get(item, "id")),
            EscapedTitle(Get(item, "title")), <<>>)

ManifestResource(item) ==
    Resource("res_" \o ToStr(Get(item, "id")), ResourceType(item), ResourceHref(item))

\* The <item> generateManifest pushes for one module, its leaves inside.
ManifestModule(module) ==
    LET items == Get(module, "items").v IN
    OrgItem("mod_" \o ToStr(Get(module, "id")), "", EscapedTitle(Get(module, "name")),
            [j \in 1..Len(items) |-> ManifestLeaf(items[j])])

NoManifest ==
    [identifier |-> "", title |-> "", description |-> "", organization |-> <<>>,
     resources |-> <<>>]

\* generateManifest(course), when it does not throw: the first generateId() names
\* the overview resource, the second the manifest.
generateManifest(course) ==
    LET modules == ModulesInOrder(course)
    IN  [identifier |-> "course_" \o generateId(2),
         title |-> EscapedTitle(Get(course, "title")),
         description |-> EscapedTitle(Get(course, "description")),
         organization |->
             <<OrgItem("overview_item", generateId(1), "Course Overview", <<>>)>>
             \o [k \in 1..Len(modules) |-> ManifestModule(modules[k])],
         resources |->
             <<Resource(generateId(1), "webcontent", "course_overview.html")>>
             \o [k \in 1..Len(AllItems(modules, 1)) |->
                    ManifestResource(AllItems(modules, 1)[k])]]

\* generateManifest escapes every item title and module name, then the
\* course title and description.
ManifestThrows(course) ==
    \/ \E i \in 1..Len(Get(course, "modules").v) :
          LET module == Get(course, "modules").v[i] IN
          \/ \E j \in 1..Len(Get(module, "items").v) :
                EscapeXmlThrows(Get(Get(module, "items").v[j], "title"))
          \/ EscapeXmlThrows(Get(module, "name"))
    \/ EscapeXmlThrows(Get(course, "title"))
    \/ EscapeXmlThrows(Get(course, "description"))

\* A variant that numbers the answers from one.
AnswerIdentFromOne(aIndex) == "ans_" \o ToString(aIndex + 1)

\* `ans_${aIndex}`, aIndex counted from 0.
AnswerIdent(aIndex) == "ans_" \o ToString(aIndex)

\* q.answers.find((a) => a.correct) from place i on: the place (from 1) of the
\* first answer whose correct is truthy, 0 when there is none.
RECURSIVE FirstCorrect(_, _)
FirstCorrect(answers, i) ==
    IF i > Len(answers) THEN 0
    ELSE IF Truthy(Get(answers[i], "correct")) THEN i
    ELSE FirstCorrect(answers, i + 1)

\* q.answers.indexOf(correctAnswer): the answers are distinct objects, so the
\* object find returned is first met at the place find stopped at (from 0).
IndexOfCorrect(answers) == FirstCorrect(answers, 1) - 1

\* <respcondition>: the answer to select and the score it sets.
RespCondition(varequal, setvar) == [varequal |-> varequal, setvar |-> setvar]

\* One <item> of the QTI document: the kind of response it asks for, its
\* response labels, the maxvalue of its decvar and its respconditions.
QtiItem(ident, title, text, asks, labels, maxvalue, respconditions) ==
    [ident |-> ident, title |-> title, text |-> text, response |-> asks,
     labels |-> labels, maxvalue |-> maxvalue, respconditions |-> respconditions]

\* The callback of questions.map for question q at index (from 0).
QuestionItem(q, index) ==
    LET qId == "q_" \o ToString(index + 1)
        title == "Question " \o ToString(index + 1)
        answers == Get(q, "answers")
        points == ToStr(Get(q, "points"))
    IN  IF Get(q, "type") = Str("multiple_choice") /\ Truthy(answers)
        THEN QtiItem(qId, title, EscapedTitle(Get(q, "text")), "response_lid",
                     [a \in 1..Len(answers.v) |->
                        [ident |-> AnswerIdent(a - 1),
                         text |-> EscapedTitle(Get(answers.v[a], "text"))]],
                     points,
                     IF FirstCorrect(answers.v, 1) # 0
                     THEN <<RespCondition(AnswerIdent(IndexOfCorrect(answers.v)), points)>>
                     ELSE <<>>)
        ELSE QtiItem(qId, title, EscapedTitle(Get(q, "text")), "response_str",
                     <<[ident |-> "answer1", text |-> ""]>>, points, <<>>)

\* generateQuizQti(item): the assessment and its items.
generateQuizQti(item) ==
    LET questions == OrElse(Get(item, "questions"), Arr(<<>>)).v IN
    [ident |-> "quiz_" \o ToStr(Get(item, "id")),
     title |-> EscapedTitle(Get(item, "title")),
     items |-> [n \in 1..Len(questions) |-> QuestionItem(questions[n], n - 1)]]

\* A variant that writes a quiz at the top level.
ItemPathQuizAtTop(item) ==
    LET id == ToStr(Get(item, "id"))
        type == Get(item, "type")
    IN  IF type = Str("assignment") THEN "assignments/" \o id \o ".html"
        ELSE IF type = Str("discussion") THEN "discussions/" \o id \o ".html"
        ELSE id \o ".xml"

\* The path the switch on item.type writes the item's file to.
ItemPath(item) ==
    LET id == ToStr(Get(item, "id"))
        type == Get(item, "type")
    IN  IF type = Str("assignment") THEN "assignments/" \o id \o ".html"
        ELSE IF type = Str("discussion") THEN "discussions/" \o id \o ".html"
        ELSE IF type = Str("quiz") THEN "quizzes/" \o id \o ".xml"
        ELSE id \o ".html"

ItemGenerator(item) ==
    LET type == Get(item, "type") IN
    IF type = Str("assignment") THEN "generateAssignmentHtml"
    ELSE IF type = Str("discussion") THEN "generateDiscussionHtml"
    ELSE IF type = Str("quiz") THEN "generateQuizQti"
    ELSE "generatePageHtml"

\* A file handed to zip.file: its path, the generator of its text, the title
\* given to the generator and the title as the text has it.
ZipEntry(path, generator, title) ==
    [path |-> path, generator |-> generator, title |-> title, escaped |-> EscapedTitle(title)]

\* zip.file(path, data): an entry of the same path is replaced.
ZipFile(files, entry) ==
    IF \E i \in 1..Len(files) : files[i].path = entry.path
    THEN [i \in 1..Len(files) |-> IF files[i].path = entry.path THEN entry ELSE files[i]]
    ELSE Append(files, entry)

\* The zip.file call the switch makes for one item.
ItemEntry(item) == ZipEntry(ItemPath(item), ItemGenerator(item), Get(item, "title"))

RECURSIVE ZipItems(_, _, _)
ZipItems(files, items, i) ==
    IF i > Len(items) THEN files
    ELSE ZipItems(ZipFile(files, ItemEntry(items[i])), items, i + 1)

\* zip.folder(name) for the three folders: a directory entry each.
ZipFolders == <<"assignments/", "discussions/", "quizzes/">>

NoArchive ==
    [status |-> "none", files |-> <<>>, writes |-> <<>>, folders |-> <<>>,
     manifest |-> NoManifest]

\* exportToIMSCC(course): the manifest, the zip.file calls in order (writes), the
\* files the zip then holds and its folders; or the rejection of the promise.
exportToIMSCC(course) ==
    IF ManifestThrows(course)
    THEN [status |-> "error", files |-> <<>>, writes |-> <<>>, folders |-> <<>>,
          manifest |-> NoManifest]
    ELSE LET items == AllItems(ModulesInOrder(course), 1)
             first == <<ZipEntry("imsmanifest.xml", "generateManifest", Get(course, "title")),
                        ZipEntry("course_overview.html", "generatePageHtml", Str("Welcome"))>>
         IN  [status |-> "ok",
              files |-> ZipItems(first, items, 1),
              writes |-> first \o [k \in 1..Len(items) |-> ItemEntry(items[k])],
              folders |-> ZipFolders,
              manifest |-> generateManifest(course)]

----------------------------------------------------------------------------
(* Inputs of POST: request bodies, and what the model may answer *)

\* The most modules and items, together, of a course the model returns.
MaxNodes == 3

\* The id, name and position a returned module may carry.
ModuleHeads == {
    <<>>,
    <<Prop("id", Str("")), Prop("name", Str("")), Prop("position", Num(0))>>,
    <<Prop("id", Str("module-1")), Prop("name", Null), Prop("position", Null)>>,
    <<Prop("id", Str("m")), Prop("name", Str("Intro")), Prop("position", Num(7))>>
}

\* The items a returned module may list.
ItemShapes == {
    Obj(<<>>),
    Obj(<<Prop("id", Str("")), Prop("type", Str("")), Prop("title", Str("")),
          Prop("position", Null), Prop("content", Str(""))>>),
    Obj(<<Prop("id", Str("item-1-1")), Prop("title", Str("Page")),
          Prop("content", Str("<p>c</p>")), Prop("position", Num(0))>>),
    Obj(<<Prop("id", Str("item-1-1")), Prop("type", Str("quiz")), Prop("title", Str("Quiz")),
          Prop("position", Num(3)), Prop("points", Num(10)),
          Prop("questions", Arr(<<>>)), Prop("prompt", Str("p"))>>)
}

ModuleOf(head, items) ==
    Obj(IF items = <<>> THEN head ELSE Append(head, Prop("items", Arr(items))))

\* The sequences of modules of at most n modules and items together.
RECURSIVE ModuleSeqs(_)
ModuleSeqs(n) ==
    {<<>>} \cup
    UNION { { <<ModuleOf(head, items)>> \o rest :
                head \in ModuleHeads,
                items \in [1..k -> ItemShapes],
                rest \in ModuleSeqs(n - 1 - k) } : k \in 0..(n - 1) }

CourseHeads == {
    <<Prop("title", Str("Intro to X")), Prop("description", Str("About X"))>>,
    <<Prop("title", Str("Intro to X"))>>
}

Courses ==
    { Obj(Append(head, Prop("modules", Arr(modules)))) :
        head \in CourseHeads, modules \in ModuleSeqs(MaxNodes) }

\* Answers that are JSON and no course the handler accepts, or that make the
\* normalizer throw.
OddValues == {
    Null,
    Num(5),
    Arr(<<>>),
    Obj(<<>>),
    Obj(<<Prop("title", Str("T"))>>),
    Obj(<<Prop("title", Str("")), Prop("modules", Arr(<<>>))>>),
    Obj(<<Prop("modules", Arr(<<>>))>>),
    Obj(<<Prop("title", Str("T")), Prop("modules", Null)>>),
    Obj(<<Prop("title", Str("T")), Prop("modules", Str("none"))>>),
    Obj(<<Prop("title", Str("T")), Prop("modules", Obj(<<>>))>>),
    Obj(<<Prop("title", Str("T")), Prop("modules", Arr(<<Null>>))>>),
    Obj(<<Prop("title", Str("T")),
          Prop("modules", Arr(<<Obj(<<Prop("items", Str("none"))>>)>>))>>),
    Obj(<<Prop("title", Str("T")),
          Prop("modules", Arr(<<Obj(<<Prop("items", Arr(<<Null>>))>>)>>))>>),
    Obj(<<Prop("title", Str("T")), Prop("description", Str("D")),
          Prop("modules", Arr(<<Obj(<<Prop("items", Null)>>),
                                Obj(<<Prop("items", Arr(<<>>))>>)>>))>>)
}

\* The markdown wrappings of a body: none, a json fence, a bare fence, with and
\* without white space around the markers.
WrapPrefix(w) ==
    CASE w = "json" -> FenceJson \o <<Ch("\n")>>
      [] w = "bare" -> Fence \o <<Ch("\n")>>
      [] w = "json-tight" -> FenceJson
      [] w = "bare-tight" -> Fence
      [] w = "json-spaced" -> <<Ch(" ")>> \o FenceJson \o <<Ch(" "), Ch("\n")>>
      [] w = "bare-spaced" -> <<Ch("\n")>> \o Fence \o <<Ch("\n")>>
      [] OTHER -> <<>>

WrapSuffix(w) ==
    CASE w \in {"json", "bare"} -> <<Ch("\n")>> \o Fence
      [] w \in {"json-tight", "bare-tight"} -> Fence
      [] w = "json-spaced" -> <<Ch("\n")>> \o Fence \o <<Ch("\n")>>
      [] w = "bare-spaced" -> <<Ch(" "), Ch("\n")>> \o Fence \o <<Ch(" ")>>
      [] OTHER -> <<>>

Wrap(w, body) == WrapPrefix(w) \o body \o WrapSuffix(w)

\* Texts that are no JSON: nothing, prose, a cut-off object, a trailing comma.
MalformedTexts == {
    <<>>,
    <<Ch("s"), Ch("o")>>,
    <<Ch("{"), Lit(Str("title")), Ch(":"), Lit(Str("T")), Ch(",")>>,
    <<Ch("["), Lit(Num(1)), Ch(","), Ch("]")>>,
    Wrap("json", <<Ch("{"), Lit(Str("title")), Ch(":")>>),
    <<Ch("{"), Ch("}")>> \o Fence \o <<Ch("s")>>
}

\* The completions the model may give POST.
RouteTexts ==
    { Stringify(x) : x \in Courses \cup OddValues }
    \cup { Wrap(w, Stringify(x)) : w \in {"json", "bare"}, x \in OddValues }
    \cup MalformedTexts

RouteOutcomes ==
    { Completion(text) : text \in RouteTexts }
    \cup { TransportError("fetch failed"), TransportError("") }

\* The values a request body may be the JSON of.
BodyValues == {
    Null,
    Num(1),
    Obj(<<>>),
    Obj(<<Prop("answers", Null)>>),
    Obj(<<Prop("answers", Str("yes"))>>),
    Obj(<<Prop("answers", Num(0))>>),
    Obj(<<Prop("answers", Bool(TRUE))>>),
    Obj(<<Prop("answers", Arr(<<Str("a")>>))>>),
    Obj(<<Prop("answers", Obj(<<Prop("course-title", Str("Intro to X")),
                                  Prop("learning-objectives",
                                       Arr(<<Str("a"), Str("b")>>))>>))>>)
}

RequestBodies == { Stringify(x) : x \in BodyValues } \cup { <<Ch("{")>> }

----------------------------------------------------------------------------
(* The handler as a state machine: one action per stretch between awaits *)

Init ==
    /\ pc = "received"
    /\ request \in RequestBodies
    /\ heap = <<>>
    /\ messages = <<>>
    /\ sent = <<>>
    /\ llmText = NoOutcome
    /\ logged = <<>>
    /\ result = NoResult
    /\ response = NoResponse
    /\ archive = NoArchive
    /\ args = <<>>

\* POST up to its first response or to the model call inside generateJSONResponse.
PostReceive ==
    /\ pc = "received"
    /\ IF ReceiveError(request) # ""
       THEN /\ response' = ErrorResponse(ReceiveError(request))
            /\ logged' = <<LogLine("Canvas generation error:", ReceiveError(request), <<>>)>>
            /\ pc' = "responded"
            /\ UNCHANGED <<heap, messages, sent>>
       ELSE IF AnswersRejected(RequestAnswers(request))
       THEN /\ response' = MissingAnswersResponse
            /\ pc' = "responded"
            /\ UNCHANGED <<heap, messages, sent, logged>>
       ELSE /\ heap' = AppendJsonInstruction(RouteMessages(RequestAnswers(request)), <<1, 2>>)
            /\ messages' = <<1, 2>>
            /\ sent' = Append(sent, LLMRequest(heap', <<1, 2>>, RouteOptions))
            /\ pc' = "awaitLLM"
            /\ UNCHANGED <<response, logged>>
    /\ UNCHANGED <<request, llmText, result, archive, args>>

\* The model call settles; generateJSONResponse and then POST run to the response.
PostResume ==
    /\ pc = "awaitLLM"
    /\ \E outcome \in RouteOutcomes :
        /\ llmText' = outcome
        /\ result' = JSONResponseResult(outcome)
        /\ logged' = JSONResponseLog(outcome) \o PostLog(outcome)
        /\ response' = PostResponse(outcome)
    /\ sent' = RequestsAfter(sent, llmText')
    /\ pc' = "responded"
    /\ UNCHANGED <<request, heap, messages, archive, args>>

\* The client hands the course of a 200 response to exportToIMSCC.
Export ==
    /\ pc = "responded"
    /\ response.status = 200
    /\ archive' = exportToIMSCC(Get(response.body, "course"))
    /\ pc' = "exported"
    /\ UNCHANGED <<request, heap, messages, sent, llmText, logged, result, response, args>>

Next == PostReceive \/ PostResume \/ Export

Spec == Init /\ [][Next]_vars

----------------------------------------------------------------------------
(* A caller of generateJSONResponse that keeps its messages between calls *)

\* The most calls the caller makes, and the longest body the model writes.
MaxCalls == 2
MaxBodyLen == 3

\* The message objects a caller may hold; its array lists them in order.
CallerHeaps == {
    <<>>,
    <<[role |-> "user", content |-> "Evaluate."]>>,
    <<[role |-> "system", content |-> "You are an evaluator."],
      [role |-> "user", content |-> "Evaluate."]>>,
    <<[role |-> "user", content |-> "Evaluate."],
      [role |-> "assistant", content |-> "{}"]>>
}

BodyAlphabet == {Backquote, "\"", "[", "]", "1", ",", " "}

\* Every text of at most n characters of the alphabet.
Bodies(n) == UNION { [1..k -> { Ch(c) : c \in BodyAlphabet }] : k \in 0..n }

Wrappings == {"none", "json", "bare", "json-tight", "bare-tight", "json-spaced", "bare-spaced"}

CallerOutcomes ==
    { Completion(Wrap(w, body)) : w \in Wrappings, body \in Bodies(MaxBodyLen) }
    \cup { TransportError("fetch failed") }

CallerInit ==
    /\ pc = "ready"
    /\ heap \in CallerHeaps
    /\ messages = [i \in 1..Len(heap) |-> i]
    /\ request = <<>>
    /\ sent = <<>>
    /\ llmText = NoOutcome
    /\ logged = <<>>
    /\ result = NoResult
    /\ response = NoResponse
    /\ archive = NoArchive
    /\ args = <<>>

\* generateJSONResponse(messages, {}) up to the model call.
CallerCall ==
    /\ pc = "ready"
    /\ Len(sent) < MaxCalls
    /\ heap' = AppendJsonInstruction(heap, messages)
    /\ sent' = Append(sent, LLMRequest(heap', messages, Obj(<<>>)))
    /\ llmText' = NoOutcome
    /\ logged' = <<>>
    /\ result' = NoResult
    /\ pc' = "awaitLLM"
    /\ UNCHANGED <<request, messages, response, archive, args>>

\* The model call settles and generateJSONResponse returns or throws.
CallerResume ==
    /\ pc = "awaitLLM"
    /\ \E outcome \in CallerOutcomes :
        /\ llmText' = outcome
        /\ result' = JSONResponseResult(outcome)
        /\ logged' = JSONResponseLog(outcome)
    /\ sent' = RequestsAfter(sent, llmText')
    /\ pc' = "ready"
    /\ UNCHANGED <<request, heap, messages, response, archive, args>>

CallerNext == CallerCall \/ CallerResume

CallerSpec == CallerInit /\ [][CallerNext]_vars

----------------------------------------------------------------------------
(* exportToIMSCC called with a course of the data model *)

ExportItemIds == {"a", "b"}
ExportItemTypes == {"page", "assignment", "discussion", "quiz", "video"}

\* An item of the data model: the title has the five escaped characters when
\* the item is a quiz or a page.
ExportItem(id, type) ==
    Obj(<<Prop("id", Str(id)), Prop("type", Str(type)),
          Prop("title", Str(IF type \in {"quiz", "page"} THEN "Q&A <\"1\" 'x'>" ELSE "T")),
          Prop("position", Num(1))>>)

ExportItems == { ExportItem(id, type) : id \in ExportItemIds, type \in ExportItemTypes }

ExportModule(id, position, items) ==
    Obj(<<Prop("id", Str(id)), Prop("name", Str("M&" \o id)), Prop("position", Num(position)),
          Prop("items", Arr(items))>>)

\* The sequences of modules of at most n modules and items together.
RECURSIVE ExportModuleSeqs(_)
ExportModuleSeqs(n) ==
    {<<>>} \cup
    UNION { { <<ExportModule(id, position, items)>> \o rest :
                id \in {"m1", "m2"},
                position \in {1, 2},
                items \in [1..k -> ExportItems],
                rest \in ExportModuleSeqs(n - 1 - k) } : k \in 0..(n - 1) }

ExportCourses ==
    { Obj(<<Prop("title", Str("Intro <X>")), Prop("description", Str("A & B")),
            Prop("welcomeMessage", Str("<p>Hi</p>")), Prop("modules", Arr(modules))>>) :
        modules \in ExportModuleSeqs(MaxNodes) }

ExportInit ==
    /\ pc = "ready"
    /\ args \in { [course |-> course] : course \in ExportCourses }
    /\ request = <<>>
    /\ heap = <<>>
    /\ messages = <<>>
    /\ sent = <<>>
    /\ llmText = NoOutcome
    /\ logged = <<>>
    /\ result = NoResult
    /\ response = NoResponse
    /\ archive = NoArchive

\* exportToIMSCC(course)
ExportCall ==
    /\ pc = "ready"
    /\ archive' = exportToIMSCC(args.course)
    /\ pc' = "exported"
    /\ UNCHANGED <<request, heap, messages, sent, llmText, logged, result, response, args>>

ExportNext == ExportCall

ExportSpec == ExportInit /\ [][ExportNext]_vars

----------------------------------------------------------------------------
(* generateQuizQti called with a quiz item *)

\* The most questions of a quiz and the most answers of a question.
MaxQuestions == 2
MaxAnswers == 3

AnswerTexts == <<"A", "B&C", "D", "E", "F">>

\* The answers lists of at most n answers, any of them marked correct; an
\* answer not marked carries correct: false or no correct at all.
AnswerLists(n) ==
    UNION { { [a \in 1..k |->
                Obj(<<Prop("text", Str(AnswerTexts[a]))>>
                    \o (IF marks[a] = "unmarked" THEN <<>>
                        ELSE <<Prop("correct", Bool(marks[a] = "correct"))>>))] :
              marks \in [1..k -> IF k = 1 THEN {"correct", "wrong", "unmarked"}
                                 ELSE {"correct", "wrong"}] } : k \in 0..n }

Question(type, points, more) ==
    Obj(<<Prop("type", Str(type)), Prop("text", Str("Why <X>?")), Prop("points", Num(points))>>
        \o more)

Questions ==
    { Question("multiple_choice", 10, <<Prop("answers", Arr(answers))>>) :
        answers \in AnswerLists(MaxAnswers) }
    \cup { Question("multiple_choice", 10, <<>>),
           Question("short_answer", 5, <<>>),
           Question("essay", 20, <<Prop("answers", Arr(<<Obj(<<Prop("text", Str("A")),
                                                   Prop("correct", Bool(TRUE))>>)>>))>>) }

QuizItems ==
    { Obj(<<Prop("id", Str("quiz-1")), Prop("type", Str("quiz")), Prop("title", Str("Quiz")),
            Prop("position", Num(1)), Prop("questions", Arr(questions))>>) :
        questions \in UNION { [1..n -> Questions] : n \in 0..MaxQuestions } }
    \cup { Obj(<<Prop("id", Str("quiz-1")), Prop("type", Str("quiz")),
                 Prop("title", Str("Quiz")), Prop("position", Num(1))>>) }

QuizInit ==
    /\ pc = "ready"
    /\ args \in { [item |-> item] : item \in QuizItems }
    /\ request = <<>>
    /\ heap = <<>>
    /\ messages = <<>>
    /\ sent = <<>>
    /\ llmText = NoOutcome
    /\ logged = <<>>
    /\ result = NoResult
    /\ response = NoResponse
    /\ archive = NoArchive

\* generateQuizQti(item)
QuizCall ==
    /\ pc = "ready"
    /\ result' = Returned(generateQuizQti(args.item))
    /\ pc' = "returned"
    /\ UNCHANGED <<request, heap, messages, sent, llmText, logged, response, archive, args>>

QuizNext == QuizCall

QuizSpec == QuizInit /\ [][QuizNext]_vars

----------------------------------------------------------------------------
(* escapeXml called with a text, and a course exported with that text as   *)
(* its title, description, module name and item title                      *)

\* The longest text.
MaxTextLen == 3

TextAlphabet == {"&", "<", ">", "\"", "'", "a", ";"}

\* Every text of at most n characters of the alphabet.
RECURSIVE Texts(_)
Texts(n) ==
    IF n = 0 THEN {""}
    ELSE {""} \cup { c \o t : c \in TextAlphabet, t \in Texts(n - 1) }

\* A course with one module and one page, all of its free text being text.
CourseTitled(text) ==
    Obj(<<Prop("title", Str(text)), Prop("description", Str(text)),
          Prop("welcomeMessage", Str("<p>Hi</p>")),
          Prop("modules", Arr(<<
              Obj(<<Prop("id", Str("m1")), Prop("name", Str(text)), Prop("position", Num(1)),
                    Prop("items", Arr(<<
                        Obj(<<Prop("id", Str("p1")), Prop("type", Str("page")),
                              Prop("title", Str(text)), Prop("content", Str("<p>c</p>")),
                              Prop("position", Num(1))>>)>>))>>)>>))>>)

EscapeInit ==
    /\ pc = "ready"
    /\ args \in { [text |-> text] : text \in Texts(MaxTextLen) }
    /\ request = <<>>
    /\ heap = <<>>
    /\ messages = <<>>
    /\ sent = <<>>
    /\ llmText = NoOutcome
    /\ logged = <<>>
    /\ result = NoResult
    /\ response = NoResponse
    /\ archive = NoArchive

\* escapeXml(text), and exportToIMSCC of the course that carries the text.
EscapeCall ==
    /\ pc = "ready"
    /\ result' = Returned(escapeXml(args.text))
    /\ archive' = exportToIMSCC(CourseTitled(args.text))
    /\ pc' = "returned"
    /\ UNCHANGED <<request, heap, messages, sent, llmText, logged, response, args>>

EscapeNext == EscapeCall

EscapeSpec == EscapeInit /\ [][EscapeNext]_vars

----------------------------------------------------------------------------
(* getProvider called under an environment *)

\* What a variable of the environment may be: not set, empty, or the value.
Setting(value) == {Undefined, Str(""), Str(value)}

Selectors ==
    {Undefined, Str(""), Str("openai"), Str("OpenAI"), Str("anthropic"), Str("ANTHROPIC"),
     Str("azure"), Str("Azure"), Str("azure "), Str("gemini"), Str("openai2")}

Environments ==
    [LLM_PROVIDER : Selectors,
     AZURE_OPENAI_API_KEY : Setting("az-key"),
     AZURE_OPENAI_ENDPOINT : Setting("https://r.openai.azure.com"),
     ANTHROPIC_API_KEY : Setting("an-key"),
     OPENAI_API_KEY : {Undefined, Str("oa-key")}]

ProviderInit ==
    /\ pc = "ready"
    /\ args \in { [env |-> env] : env \in Environments }
    /\ request = <<>>
    /\ heap = <<>>
    /\ messages = <<>>
    /\ sent = <<>>
    /\ llmText = NoOutcome
    /\ logged = <<>>
    /\ result = NoResult
    /\ response = NoResponse
    /\ archive = NoArchive

\* getProvider()
ProviderCall ==
    /\ pc = "ready"
    /\ result' = Returned(Str(getProvider(args.env)))
    /\ pc' = "returned"
    /\ UNCHANGED <<request, heap, messages, sent, llmText, logged, response, archive, args>>

ProviderNext == ProviderCall

ProviderSpec == ProviderInit /\ [][ProviderNext]_vars

----------------------------------------------------------------------------
(* buildModuleContentUserPrompt called with a module stub *)

\* The most items of a module stub.
MaxStubItems == 2

StubItems ==
    { Obj(<<Prop("id", Str(id)), Prop("type", Str(type)), Prop("title", Str(title)),
            Prop("position", Num(1))>>) :
        id \in {"item-1-1", "x9"}, type \in {"page", "quiz"}, title \in {"Intro", "Check"} }

ModuleStubs ==
    { Obj(<<Prop("id", Str(id)), Prop("name", Str("Basics")), Prop("position", Num(1)),
            Prop("items", Arr(items))>>) :
        id \in {"module-1", "m2"},
        items \in UNION { [1..n -> StubItems] : n \in 0..MaxStubItems } }

StubAnswers ==
    { Obj(<<>>),
      Obj(<<Prop("learning-objectives", Arr(<<Str("a"), Str("b")>>)),
            Prop("target-audience", Str("Adults"))>>) }

PromptInit ==
    /\ pc = "ready"
    /\ args \in { [answers |-> answers, moduleStructure |-> stub, courseTitle |-> Str("Intro to X")] :
                    answers \in StubAnswers, stub \in ModuleStubs }
    /\ request = <<>>
    /\ heap = <<>>
    /\ messages = <<>>
    /\ sent = <<>>
    /\ llmText = NoOutcome
    /\ logged = <<>>
    /\ result = NoResult
    /\ response = NoResponse
    /\ archive = NoArchive

\* buildModuleContentUserPrompt(answers, moduleStructure, courseTitle)
PromptCall ==
    /\ pc = "ready"
    /\ result' = Returned(Str(buildModuleContentUserPrompt(
                      args.answers, args.moduleStructure, args.courseTitle)))
    /\ pc' = "returned"
    /\ UNCHANGED <<request, heap, messages, sent, llmText, logged, response, archive, args>>

PromptNext == PromptCall

PromptSpec == PromptInit /\ [][PromptNext]_vars

----------------------------------------------------------------------------
(* Properties *)

Responded == pc \in {"responded", "exported"}
Ok200 == response.status = 200

\* The modules the model returned, and the modules of the course in the response.
ReturnedModules == Get(result.value, "modules").v
ResponseCourse == Get(response.body, "course")
ResponseModules == Get(ResponseCourse, "modules").v

Nullish(x) == x.t \in {"undefined", "null"}
Falsy(x) == Nullish(x) \/ x = Str("") \/ x = Num(0) \/ x = Bool(FALSE)

PassedThrough == {"content", "points", "rubric", "questions", "prompt"}

\* C2: in a 200 response, item j of module m (both from 1) has id item-m-j when
\* the model's item lacks an id, type "page" when it lacks a type, title Item j
\* when it lacks a title, position j when it lacks a position, and the content,
\* points, rubric, questions and prompt of the model's item, absent ones included.
C2_ItemDefaults ==
    Ok200 =>
        \A m \in 1..Len(ReturnedModules) :
            LET givenItems == ItemsOf(ReturnedModules[m]).v
                items == Get(ResponseModules[m], "items").v
            IN  /\ Len(items) = Len(givenItems)
                /\ \A j \in 1..Len(givenItems) :
                    /\ ~HasKey(givenItems[j], "id") =>
                          Get(items[j], "id") = Str("item-" \o ToString(m) \o "-" \o ToString(j))
                    /\ ~HasKey(givenItems[j], "type") => Get(items[j], "type") = Str("page")
                    /\ ~HasKey(givenItems[j], "title") =>
                          Get(items[j], "title") = Str("Item " \o ToString(j))
                    /\ ~HasKey(givenItems[j], "position") => Get(items[j], "position") = Num(j)
                    /\ \A f \in PassedThrough : Get(items[j], f) = Get(givenItems[j], f)

\* A 200 response with an item the model gave no field of, not at m = j, and an
\* item whose points and questions are passed through.
C2_Witness ==
    /\ Ok200
    /\ \E m \in 1..Len(ReturnedModules) :
        \E j \in 1..Len(ItemsOf(ReturnedModules[m]).v) :
            /\ m # j
            /\ ItemsOf(ReturnedModules[m]).v[j] = Obj(<<>>)
            /\ Get(Get(ResponseModules[m], "items").v[j], "id")
                  = Str("item-" \o ToString(m) \o "-" \o ToString(j))
    /\ \E m \in 1..Len(ReturnedModules) :
        \E j \in 1..Len(ItemsOf(ReturnedModules[m]).v) :
            /\ Get(ItemsOf(ReturnedModules[m]).v[j], "points") = Num(10)
            /\ Get(Get(ResponseModules[m], "items").v[j], "points") = Num(10)

\* C3: in a 200 response the module ids are pairwise distinct.
C3_ModuleIdsDistinct ==
    Ok200 =>
        \A i, k \in 1..Len(ResponseModules) :
            i # k => Get(ResponseModules[i], "id") # Get(ResponseModules[k], "id")

\* C4: an archive exported from the course of a 200 response holds the manifest,
\* the overview and one file for each module item: no two items share a path.
C4_OneFilePerItem ==
    (pc = "exported" /\ archive.status = "ok") =>
        Len(archive.files) = 2 + Len(AllItems(ResponseModules, 1))

\* The text between the markers of wrapping w, when text is wrapped that way.
Unwrap(w, text) == SubSeq(text, Len(WrapPrefix(w)) + 1, Len(text) - Len(WrapSuffix(w)))

IsWrapped(w, text) ==
    /\ Len(text) >= Len(WrapPrefix(w)) + Len(WrapSuffix(w))
    /\ Wrap(w, Unwrap(w, text)) = text

\* C5: when the model's text is a JSON body alone, in a json fence or in a bare
\* fence, with or without white space around the markers, generateJSONResponse
\* returns the value JSON.parse gives for the body itself.
C5_FencedParsesAsBody ==
    llmText.kind = "text" =>
        \A w \in Wrappings :
            (IsWrapped(w, llmText.text) /\ JSONParse(Unwrap(w, llmText.text)).ok) =>
                result = Returned(JSONParse(Unwrap(w, llmText.text)).val)

\* The model wrote the string of one backquote inside a json fence with white
\* space around the markers, and the call returned that string.
C5_Witness ==
    /\ llmText.kind = "text"
    /\ IsWrapped("json-spaced", llmText.text)
    /\ Unwrap("json-spaced", llmText.text) = <<Ch("\""), Ch(Backquote), Ch("\"")>>
    /\ result = Returned(Str(Backquote))

\* The model's text is no JSON once the fence markers are stripped.
Unparseable == llmText.kind = "text" /\ ~JSONParse(CleanResponse(llmText.text)).ok

\* C6: when the model's text is no JSON after fence stripping, generateJSONResponse
\* throws the fixed parse error and returns no value; the raw text is in the log
\* line of generateJSONResponse and nowhere else: the handler's log line and the
\* 500 response carry the fixed message only.
C6_ParseFailure ==
    (pc = "responded" /\ Unparseable) =>
        /\ result = Threw(ParseErrorMessage)
        /\ response = HttpResponse(500, Obj(<<Prop("error", Str(ParseErrorMessage))>>))
        /\ logged = <<LogLine("Failed to parse LLM response as JSON:", "", llmText.text),
                      LogLine("Canvas generation error:", ParseErrorMessage, <<>>)>>

\* The model wrote an object followed by a fence marker and prose; the request
\* ended in the 500 response.
C6_Witness ==
    /\ pc = "responded"
    /\ Unparseable
    /\ llmText.text = <<Ch("{"), Ch("}")>> \o Fence \o <<Ch("s")>>
    /\ response.status = 500

\* The value generateJSONResponse returned lacks what the handler requires.
LacksRequired(x) ==
    \/ ~HasKey(x, "title")
    \/ ~HasKey(x, "modules")
    \/ ~IsArray(Get(x, "modules"))

FailedAfterCheck ==
    \/ llmText.kind = "error"
    \/ Unparseable
    \/ (result.kind = "value" /\ LacksRequired(result.value))

\* Every module and item of the course has the fields the normalizer fills in.
Complete(course) ==
    \A m \in 1..Len(Get(course, "modules").v) :
        LET module == Get(course, "modules").v[m] IN
        /\ Truthy(Get(module, "id"))
        /\ Truthy(Get(module, "name"))
        /\ ~Nullish(Get(module, "position"))
        /\ IsArray(Get(module, "items"))
        /\ \A j \in 1..Len(Get(module, "items").v) :
            LET item == Get(module, "items").v[j] IN
            /\ Truthy(Get(item, "id"))
            /\ Truthy(Get(item, "type"))
            /\ Truthy(Get(item, "title"))
            /\ ~Nullish(Get(item, "position"))

C7_Responses ==
    /\ pc \in {"received", "awaitLLM"} => response = NoResponse
    /\ Responded => response.status \in {200, 400, 500}
    /\ (Responded /\ FailedAfterCheck) =>
          /\ response.status = 500
          /\ Get(response.body, "error").t = "string"
          /\ Get(response.body, "error").v # ""
          /\ ~HasKey(response.body, "course")
    /\ Ok200 =>
          /\ result.kind = "value"
          /\ Truthy(Get(result.value, "title"))
          /\ IsArray(Get(result.value, "modules"))
          /\ ~HasKey(response.body, "error")
          /\ Get(ResponseCourse, "title") = Get(result.value, "title")
          /\ Complete(ResponseCourse)

\* C7: a request has no response until the handler ends and one response from
\* then on, which never changes; a transport error, a parse failure or a value
\* without title or modules array gives 500 with an error message and no course;
\* a 200 response is given only for a value with a title and a modules array,
\* and its course has every normalized field.
C7_OneResponse ==
    /\ []C7_Responses
    /\ [][response # NoResponse => response' = response]_vars

\* The model returned an object with a title and no modules: 500, an error.
C7_Witness ==
    /\ pc = "responded"
    /\ result.kind = "value"
    /\ HasKey(result.value, "title")
    /\ ~HasKey(result.value, "modules")
    /\ response = HttpResponse(500, Obj(<<Prop("error", Str(InvalidStructureMessage))>>))

\* The body of the request as JSON.parse reads it.
RequestJson == JSONParse(request)
AnswersKind == Get(RequestJson.val, "answers").t

IsStringOrStrings(x) ==
    \/ x.t = "string"
    \/ (x.t = "array" /\ \A i \in 1..Len(x.v) : x.v[i].t = "string")

IsAnswerMapping(x) ==
    x.t = "object" /\ \A i \in 1..Len(x.v) : IsStringOrStrings(x.v[i].val)

C9_AtMostOneCall ==
    /\ Len(sent) <= 1
    /\ (Responded /\ llmText.kind # "none") => Len(sent) = 1
    /\ response.status = 400 => sent = <<>>

\* C9: a request makes at most one model call, whatever the call comes to, and
\* once the handler has responded neither the calls made nor the response change.
C9_SingleAttempt ==
    /\ []C9_AtMostOneCall
    /\ [][Responded => (sent' = sent /\ response' = response /\ llmText' = llmText)]_vars

\* The model's text did not parse: the request ended with 500 after one call.
C9_Witness ==
    /\ pc = "responded"
    /\ Unparseable
    /\ response.status = 500
    /\ Len(sent) = 1

\* C10: generateJSONResponse leaves the caller's message array and the content
\* of every message in it as they were.
C10_CallerMessagesUnchanged == [][heap' = heap /\ messages' = messages]_vars

\* The items of the course exportToIMSCC was called with, module by module.
ExportedItems == AllItems(Get(args.course, "modules").v, 1)

HasPrefix(s, p) == Len(s) >= Len(p) /\ SubSeq(s, 1, Len(p)) = p

\* The path the claim gives an item of this id and type.
RoutedPath(item) ==
    LET id == Get(item, "id").v
        type == Get(item, "type").v
    IN  CASE type = "quiz" -> "quizzes/" \o id \o ".xml"
          [] type = "assignment" -> "assignments/" \o id \o ".html"
          [] type = "discussion" -> "discussions/" \o id \o ".html"
          [] OTHER -> id \o ".html"

\* C11: exportToIMSCC makes one zip.file call for each module item, after those
\* for the manifest and the overview, at quizzes/{id}.xml for a quiz,
\* assignments/{id}.html for an assignment, discussions/{id}.html for a
\* discussion and {id}.html for a page or any other type; the archive holds a
\* file at that path, and a quiz is never written outside quizzes/.
C11_ItemRouting ==
    (pc = "exported" /\ args # <<>>) =>
        /\ archive.status = "ok"
        /\ Len(archive.writes) = 2 + Len(ExportedItems)
        /\ \A k \in 1..Len(ExportedItems) :
            LET item == ExportedItems[k]
                write == archive.writes[2 + k]
            IN  /\ write.path = RoutedPath(item)
                /\ \E i \in 1..Len(archive.files) : archive.files[i].path = write.path
                /\ Get(item, "type") = Str("quiz") => HasPrefix(write.path, "quizzes/")

\* An exported course with a quiz and an item of an unrecognized type, written
\* to quizzes/a.xml and to b.html.
C11_Witness ==
    /\ pc = "exported"
    /\ args # <<>>
    /\ Len(ExportedItems) = 2
    /\ Get(ExportedItems[1], "type") = Str("quiz")
    /\ Get(ExportedItems[2], "type") = Str("video")
    /\ archive.writes[3].path = "quizzes/a.xml"
    /\ archive.writes[4].path = "b.html"

\* The questions generateQuizQti was called with and the items it returned.
GivenQuestions == OrElse(Get(args.item, "questions"), Arr(<<>>)).v
QtiItems == result.value.items

IsChoiceQuestion(q) == Get(q, "type") = Str("multiple_choice") /\ IsArray(Get(q, "answers"))

\* The places (from 1) of the answers of q that are marked correct.
MarkedCorrect(q) ==
    { a \in 1..Len(Get(q, "answers").v) : Get(Get(q, "answers").v[a], "correct") = Bool(TRUE) }

\* C12: for a multiple-choice question with an answers list, the item's decvar
\* has maxvalue = points; with one answer marked correct, at zero-based index k,
\* the item has one respcondition, for ans_k, setting SCORE to points; with no
\* answer marked correct it has no respcondition.
C12_CorrectAnswerIndex ==
    pc = "returned" =>
        /\ Len(QtiItems) = Len(GivenQuestions)
        /\ \A n \in 1..Len(GivenQuestions) :
            LET q == GivenQuestions[n] IN
            IsChoiceQuestion(q) =>
                /\ QtiItems[n].maxvalue = ToString(Get(q, "points").v)
                /\ \A a \in MarkedCorrect(q) :
                      MarkedCorrect(q) = {a} =>
                          QtiItems[n].respconditions =
                              <<[varequal |-> "ans_" \o ToString(a - 1),
                                 setvar |-> ToString(Get(q, "points").v)]>>
                /\ MarkedCorrect(q) = {} => QtiItems[n].respconditions = <<>>

\* A quiz whose second question has answers A, B&C with the second marked
\* correct (ans_1, SCORE 10) and whose first has answers and none marked.
C12_Witness ==
    /\ pc = "returned"
    /\ Len(GivenQuestions) = 2
    /\ IsChoiceQuestion(GivenQuestions[1])
    /\ Len(Get(GivenQuestions[1], "answers").v) = 2
    /\ MarkedCorrect(GivenQuestions[1]) = {}
    /\ QtiItems[1].respconditions = <<>>
    /\ QtiItems[1].maxvalue = "10"
    /\ IsChoiceQuestion(GivenQuestions[2])
    /\ MarkedCorrect(GivenQuestions[2]) = {2}
    /\ QtiItems[2].respconditions = <<[varequal |-> "ans_1", setvar |-> "10"]>>

\* C13: a multiple-choice question has a respcondition exactly when exactly one
\* of its answers is marked correct; every other question has none.
C13_ExactlyOneCorrect ==
    pc = "returned" =>
        \A n \in 1..Len(GivenQuestions) :
            LET q == GivenQuestions[n] IN
            IF IsChoiceQuestion(q)
            THEN (QtiItems[n].respconditions # <<>>) <=> (Cardinality(MarkedCorrect(q)) = 1)
            ELSE QtiItems[n].respconditions = <<>>

\* The entity of a character that has one, the character itself otherwise.
Entity(c) ==
    CASE c = "&" -> "&amp;"
      [] c = "<" -> "&lt;"
      [] c = ">" -> "&gt;"
      [] c = "\"" -> "&quot;"
      [] c = "'" -> "&apos;"
      [] OTHER -> c

\* The entities of the characters of s from i on, one after another.
RECURSIVE EachEscaped(_, _)
EachEscaped(s, i) ==
    IF i > Len(s) THEN "" ELSE Entity(SubSeq(s, i, i)) \o EachEscaped(s, i + 1)

\* An entity starts at place i of s.
EntityAt(s, i) ==
    \E e \in {"&amp;", "&lt;", "&gt;", "&quot;", "&apos;"} :
        i + Len(e) - 1 <= Len(s) /\ SubSeq(s, i, i + Len(e) - 1) = e

\* C14: escapeXml(text) is text with each of & < > " ' replaced by its entity
\* and every other character kept in place; it holds no raw < > " ' and each
\* of its & starts an entity; and that text is what the manifest has for the
\* course title and description, the module name and the item title, and
\* what the page HTML has for its title.
C14_EscapeXml ==
    pc = "returned" =>
        LET escaped == result.value IN
        /\ escaped = EachEscaped(args.text, 1)
        /\ \A i \in 1..Len(escaped) :
            /\ SubSeq(escaped, i, i) \notin {"<", ">", "\"", "'"}
            /\ SubSeq(escaped, i, i) = "&" => EntityAt(escaped, i)
        /\ archive.status = "ok"
        /\ archive.manifest.title = escaped
        /\ archive.manifest.description = escaped
        /\ archive.manifest.organization[2].title = escaped
        /\ archive.manifest.organization[2].items[1].title = escaped
        /\ archive.writes[3].generator = "generatePageHtml"
        /\ archive.writes[3].escaped = escaped

\* The text <&" was escaped to &lt;&amp;&quot; and exported as a title.
C14_Witness ==
    /\ pc = "returned"
    /\ args.text = "<&\""
    /\ result.value = "&lt;&amp;&quot;"
    /\ archive.manifest.organization[2].items[1].title = "&lt;&amp;&quot;"

Providers == {"openai", "anthropic", "azure"}

\* The spellings of a provider's name that differ in case only.
Spellings(provider) ==
    CASE provider = "openai" -> {"openai", "OpenAI", "OPENAI"}
      [] provider = "anthropic" -> {"anthropic", "Anthropic", "ANTHROPIC"}
      [] provider = "azure" -> {"azure", "Azure", "AZURE"}

\* The variable is set to a text that is not empty.
Present(name) == args.env[name].t = "string" /\ args.env[name].v # ""

\* The provider LLM_PROVIDER names, in any case; none when it names none.
Selected ==
    { provider \in Providers :
        args.env.LLM_PROVIDER.t = "string" /\ args.env.LLM_PROVIDER.v \in Spellings(provider) }

\* C15: getProvider returns the provider LLM_PROVIDER names, in whatever case,
\* whichever credentials are set; when it names none of the three, azure when
\* the Azure key and endpoint are both set, else anthropic when the Anthropic
\* key is set, else openai.  The result is always one of the three.
C15_ProviderResolution ==
    pc = "returned" =>
        /\ result.value.v \in Providers
        /\ \A provider \in Selected : result.value = Str(provider)
        /\ Selected = {} =>
              result.value =
                  IF Present("AZURE_OPENAI_API_KEY") /\ Present("AZURE_OPENAI_ENDPOINT")
                  THEN Str("azure")
                  ELSE IF Present("ANTHROPIC_API_KEY") THEN Str("anthropic")
                  ELSE Str("openai")

\* LLM_PROVIDER = ANTHROPIC with the Azure credentials set: anthropic.
C15_Witness ==
    /\ pc = "returned"
    /\ args.env.LLM_PROVIDER = Str("ANTHROPIC")
    /\ Present("AZURE_OPENAI_API_KEY")
    /\ Present("AZURE_OPENAI_ENDPOINT")
    /\ result.value = Str("anthropic")

ExportedModules == Get(args.course, "modules").v

\* The course with other position values: every position 0, or the positions
\* counting down from the number of modules and of items.
Repositioned(course, how) ==
    LET modules == Get(course, "modules").v
        NewPosition(n, k) == Num(IF how = "zero" THEN 0 ELSE n - k + 1)
        NewItems(items) ==
            [j \in 1..Len(items) |->
                Obj(SetProp(items[j].v, "position", NewPosition(Len(items), j)))]
        NewModule(k) ==
            Obj(SetProp(SetProp(modules[k].v, "position", NewPosition(Len(modules), k)),
                        "items", Arr(NewItems(Get(modules[k], "items").v))))
    IN  Obj(SetProp(course.v, "modules", Arr([k \in 1..Len(modules) |-> NewModule(k)])))

\* C16: the organization lists the Course Overview and then the modules in the
\* order of course.modules, each with its items in the order of its items; the
\* resources list the overview and then every item in that order; the files are
\* written in that order too; and the same course with other position values
\* gives the same manifest, the same writes and the same files.
C16_IterationOrder ==
    (pc = "exported" /\ args # <<>>) =>
        LET organization == archive.manifest.organization
            resources == archive.manifest.resources
        IN  /\ Len(organization) = 1 + Len(ExportedModules)
            /\ organization[1].identifier = "overview_item"
            /\ organization[1].title = "Course Overview"
            /\ \A k \in 1..Len(ExportedModules) :
                LET items == Get(ExportedModules[k], "items").v IN
                /\ organization[1 + k].identifier = "mod_" \o Get(ExportedModules[k], "id").v
                /\ Len(organization[1 + k].items) = Len(items)
                /\ \A j \in 1..Len(items) :
                      organization[1 + k].items[j].identifier = "item_" \o Get(items[j], "id").v
            /\ Len(resources) = 1 + Len(ExportedItems)
            /\ resources[1].href = "course_overview.html"
            /\ \A k \in 1..Len(ExportedItems) :
                /\ resources[1 + k].identifier = "res_" \o Get(ExportedItems[k], "id").v
                /\ resources[1 + k].href = RoutedPath(ExportedItems[k])
                /\ archive.writes[2 + k].generator # "generateManifest"
                /\ archive.writes[2 + k].title = Get(ExportedItems[k], "title")
            /\ \A how \in {"zero", "down"} :
                  exportToIMSCC(Repositioned(args.course, how)) = archive

\* A course whose first module has position 2 and an item, and whose second
\* module has position 1: exported first module first.
C16_Witness ==
    /\ pc = "exported"
    /\ args # <<>>
    /\ Len(ExportedModules) = 2
    /\ Get(ExportedModules[1], "position") = Num(2)
    /\ Get(ExportedModules[2], "position") = Num(1)
    /\ Get(ExportedModules[1], "id") # Get(ExportedModules[2], "id")
    /\ Len(ExportedItems) = 1
    /\ archive.manifest.organization[2].identifier = "mod_" \o Get(ExportedModules[1], "id").v
    /\ Len(archive.manifest.organization[2].items) = 1
    /\ archive.manifest.organization[3].identifier = "mod_" \o Get(ExportedModules[2], "id").v

\* The resource type the claim gives an item of this type.
RoutedType(item) ==
    LET type == Get(item, "type").v
    IN  CASE type = "quiz" -> "assessment"
          [] type = "assignment" -> "assignment"
          [] type = "discussion" -> "discussion"
          [] OTHER -> "webcontent"

\* The leaf items of the organization, module by module.
RECURSIVE Leaves(_, _)
Leaves(organization, k) ==
    IF k > Len(organization) THEN <<>>
    ELSE organization[k].items \o Leaves(organization, k + 1)

\* C18: the manifest has the overview resource and item and, for every module
\* item, one resource and one leaf item that refers to it; the resource has the
\* type its item's type selects and, as href, the path the item's file was
\* written to; every href of the manifest is the path of a file of the archive,
\* and every file of the archive but imsmanifest.xml is the href of a resource.
C18_ManifestMatchesArchive ==
    (pc = "exported" /\ args # <<>>) =>
        LET organization == archive.manifest.organization
            resources == archive.manifest.resources
            leaves == Leaves(organization, 2)
            files == archive.files
        IN  /\ Len(resources) = 1 + Len(ExportedItems)
            /\ Len(leaves) = Len(ExportedItems)
            /\ organization[1].items = <<>>
            /\ organization[1].identifierref = resources[1].identifier
            /\ resources[1].type = "webcontent"
            /\ resources[1].href = archive.writes[2].path
            /\ \A k \in 1..Len(ExportedItems) :
                /\ leaves[k].identifierref = resources[1 + k].identifier
                /\ resources[1 + k].type = RoutedType(ExportedItems[k])
                /\ resources[1 + k].href = archive.writes[2 + k].path
            /\ \A r \in 1..Len(resources) :
                  \E f \in 1..Len(files) : files[f].path = resources[r].href
            /\ \A f \in 1..Len(files) :
                  files[f].path # "imsmanifest.xml" =>
                      \E r \in 1..Len(resources) : resources[r].href = files[f].path

\* A course with an assignment and a quiz of the same id: two resources, of
\* type assignment and assessment, and a file for each of them.
C18_Witness ==
    /\ pc = "exported"
    /\ args # <<>>
    /\ Len(ExportedItems) = 2
    /\ Get(ExportedItems[1], "type") = Str("assignment")
    /\ Get(ExportedItems[2], "type") = Str("quiz")
    /\ Get(ExportedItems[1], "id") = Get(ExportedItems[2], "id")
    /\ archive.manifest.resources[2].type = "assignment"
    /\ archive.manifest.resources[3].type = "assessment"
    /\ archive.manifest.resources[3].href = "quizzes/a.xml"
    /\ Len(archive.files) = 4

\* The text s has the text part somewhere in it.
Contains(s, part) ==
    \E i \in 1..(Len(s) - Len(part) + 1) : SubSeq(s, i, i + Len(part) - 1) = part

\* C17: the prompt buildModuleContentUserPrompt returns has, for every item of
\* the module stub, the title and the type of the item and the id of the item.
C17_PromptNamesItemIds ==
    pc = "returned" =>
        \A j \in 1..Len(Get(args.moduleStructure, "items").v) :
            LET item == Get(args.moduleStructure, "items").v[j] IN
            /\ Contains(result.value.v,
                        "- " \o Get(item, "title").v \o " (" \o Get(item, "type").v \o ")")
            /\ Contains(result.value.v, Get(item, "id").v)

=============================================================================
